---- MODULE Spec2Model ----
(***************************************************************************)
(* Auto-Documenter: the profiler analyze_file (src/parser.py), the         *)
(* dashboard's metrics and ML readiness score (src/app.py) and the upload  *)
(* endpoint (src/main.py), as a state machine over small uploaded files.   *)
(*                                                                         *)
(* Numbers that the code holds as floats rounded to 2 decimals are held    *)
(* here in hundredths (91.67 is 9167); a float that can be NaN is a record *)
(* [nan, v].  round(x, 2) is round-half-to-even on the exact quotient.     *)
(***************************************************************************)
EXTENDS Integers, Sequences, FiniteSets, TLC

\* ------------------------------------------------------------------ bounds
MaxRows == 3
MaxCols == 2
MaxCells == 4
MaxRuns == 2
MaxScoreRows == 3
MaxScoreCols == 3
MaxConcRows == 1
MaxConcCols == 1
MaxDashRows == 1
MaxDashCols == 1

\* ------------------------------------------------------------ float values
NaN == [nan |-> TRUE, v |-> 0]
Num(x) == [nan |-> FALSE, v |-> x]

Abs(x) == IF x < 0 THEN -x ELSE x

\* round-half-to-even of n/d, d > 0 (numpy's rint, Python's round)
RoundHE(n, d) ==
  LET a == Abs(n)
      q == a \div d
      r == a % d
      m == IF 2 * r > d THEN q + 1
           ELSE IF 2 * r < d THEN q
           ELSE IF q % 2 = 0 THEN q ELSE q + 1
  IN IF n < 0 THEN -m ELSE m

\* n/d rounded to the nearest integer, d > 0, where the float the code rounds
\* is a sum of rounded products: on an exact tie the float lies just above or
\* just below it, so a tie goes up or down (up says which).
RoundSum(n, d, up) ==
  IF 2 * (n % d) = d THEN (n \div d) + (IF up THEN 1 ELSE 0) ELSE RoundHE(n, d)

\* numpy true division of two integers, times 100, rounded to 2 decimals, in
\* hundredths: round((n / d) * 100, 2).  0/0 is nan (a RuntimeWarning, no
\* exception); the code never divides a non-zero count by zero.
NpPct(n, d) == IF d = 0 THEN NaN ELSE Num(RoundHE(n * 10000, d))

RECURSIVE SumSeq(_)
SumSeq(s) == IF s = <<>> THEN 0 ELSE Head(s) + SumSeq(Tail(s))

\* -------------------------------------------------------------- the cells
\* A cell of an uploaded table: "NA" is an empty cell / null, "n0" and "n1"
\* are the numbers 0 and 1, "s1" is the string "1" (JSON only: in CSV the
\* text 1 is the number), "a" is a text that is no number.
Missing == "NA"
NumberCells == {"n0", "n1"}
CsvCells == {Missing, "n0", "n1", "a"}
JsonCells == {Missing, "n0", "n1", "s1", "a"}
NumVal(c) == IF c = "n1" THEN 1 ELSE 0
ParsesAsNumber(c) == c \in {"n0", "n1", "s1"}

ColumnNames == <<"c1", "c2", "c3", "c4">>
TabularExts == {".csv", ".xlsx", ".json"}

CellsOf(ext) == IF ext = ".json" THEN JsonCells ELSE CsvCells

\* The header of a table with nc columns; the first column is named Value
\* when valueCol.
Header(nc, valueCol) ==
  [i \in 1..nc |-> IF i = 1 /\ valueCol THEN "Value" ELSE ColumnNames[i]]

\* Shapes of the uploaded tables.  A table without columns has no rows; a
\* JSON array of no records has no columns.
Shapes(ext, maxr, maxc, maxcells) ==
  {sh \in (0..maxr) \X (0..maxc) :
     /\ sh[1] * sh[2] <= maxcells
     /\ sh[2] = 0 => sh[1] = 0
     /\ (ext = ".json" /\ sh[1] = 0) => sh[2] = 0}

\* An uploaded table t, column-wise, of shape sh = <<rows, columns>>.
TabularFile(ext, sh, valueCol, t) ==
  [name |-> "data" \o ext, ext |-> ext, nrows |-> sh[1],
   names |-> Header(sh[2], valueCol), cols |-> t, text |-> ""]

\* The tables of shape sh with cells drawn from cells.
Tables(sh, cells) == [1..sh[2] -> [1..sh[1] -> cells]]

\* A header names a column Value only in a table with a cell.
ValueCols(sh) == IF sh[1] >= 1 /\ sh[2] >= 1 THEN BOOLEAN ELSE {FALSE}

\* A Python source file, or a file of an unsupported type.
OtherFile(ext) ==
  [name |-> "data" \o ext, ext |-> ext, nrows |-> 0, names |-> <<>>,
   cols |-> <<>>, text |-> "print(1)"]

\* The cells of the score and of the concurrency specification.
ScoreCells == {Missing, "n1", "a"}

\* ------------------------------------------------------------ the loaders
EmptyDf == [nrows |-> 0, names |-> <<>>, dtypes |-> <<>>, cols |-> <<>>]

\* pandas' dtype of a column read by read_csv / read_excel: without rows the
\* column is object; otherwise a column whose non-empty cells are all numbers
\* (an all-empty column too: float64 NaN) is a number column.
InferParsed(cells, nrows) ==
  IF nrows = 0 THEN "object"
  ELSE IF \A r \in 1..nrows : cells[r] \in NumberCells \cup {Missing}
       THEN "number" ELSE "object"

\* pandas' dtype of a column built from JSON records: values keep their JSON
\* type, so a string stays a string; a column of nulls only is object.
InferJsonParsing(cells, nrows) ==
  IF /\ \A r \in 1..nrows : ParsesAsNumber(cells[r]) \/ cells[r] = Missing
     /\ \E r \in 1..nrows : ParsesAsNumber(cells[r])
  THEN "number" ELSE "object"

InferJson(cells, nrows) ==
  IF /\ \A r \in 1..nrows : cells[r] \in NumberCells \cup {Missing}
     /\ \E r \in 1..nrows : cells[r] \in NumberCells
  THEN "number" ELSE "object"

\* The DataFrame of a table; the dtypes are inferred as the reader does.
DataFrame(f, reader) ==
  [nrows |-> f.nrows, names |-> f.names,
   dtypes |-> [i \in 1..Len(f.cols) |->
                 IF reader = "json" THEN InferJson(f.cols[i], f.nrows)
                 ELSE InferParsed(f.cols[i], f.nrows)],
   cols |-> f.cols]

\* pd.read_csv: a file without columns raises EmptyDataError.
read_csv(f) ==
  IF Len(f.cols) = 0
  THEN [ok |-> FALSE, df |-> EmptyDf, err |-> "No columns to parse from file"]
  ELSE [ok |-> TRUE, df |-> DataFrame(f, "parsed"), err |-> ""]

read_excel(f) == [ok |-> TRUE, df |-> DataFrame(f, "parsed"), err |-> ""]

json_normalize(f) == [ok |-> TRUE, df |-> DataFrame(f, "json"), err |-> ""]

\* ------------------------------------------------- DataFrame measurements
NCols(df) == Len(df.names)

\* df.select_dtypes(include=['number']).columns and its complement
numeric_cols(df) == {i \in 1..NCols(df) : df.dtypes[i] = "number"}
categorical_cols(df) == {i \in 1..NCols(df) : df.dtypes[i] # "number"}

\* df[col].isna().sum()
MissingIn(df, i) == Cardinality({r \in 1..df.nrows : df.cols[i][r] = Missing})

\* df.isna().sum().sum()
TotalMissing(df) == SumSeq([i \in 1..NCols(df) |-> MissingIn(df, i)])

\* df[col].nunique(dropna=True)
NUnique(df, i) == Cardinality({df.cols[i][r] : r \in 1..df.nrows} \ {Missing})

Row(df, r) == [i \in 1..NCols(df) |-> df.cols[i][r]]

\* df.duplicated().sum(): rows equal to an earlier row (NaN equals NaN)
Duplicated(df) ==
  Cardinality({r \in 1..df.nrows : \E q \in 1..(r - 1) : Row(df, q) = Row(df, r)})

\* ------------------------------------------------------ the output files
\* The working directory: the uploads saved by name, output/README.md,
\* output/report.pdf, output/Auto_Documenter_Output.zip and the charts
\* output/numeric_charts/<column>.png.  A file is a sequence of entries; an
\* absent chart is <<>>.
AllNames == {"Value"} \cup {ColumnNames[i] : i \in 1..Len(ColumnNames)}
NoZip == [readme |-> <<>>, pdf |-> <<>>, charts |-> <<>>]
EmptyFs ==
  [uploads |-> [n \in {"data" \o e : e \in TabularExts \cup {".py", ".txt"}}
                        \cup {"more.csv"} |-> <<>>],
   readme |-> <<>>, pdf |-> <<>>, zip |-> NoZip,
   charts |-> [n \in AllNames |-> <<>>]]

\* What an earlier run on a Python file left in output/.
StaleReadme ==
  <<<<"AUTO GENERATED DOCUMENTATION", "">>, <<"PYTHON FILE", "">>,
    <<"code", "print(0)">>>>
StaleFs == [EmptyFs EXCEPT !.readme = StaleReadme]

\* ------------------------------------------- analyze_file, step by step
NoSummary ==
  [rows |-> 0, columns |-> 0, column_names |-> <<>>, numeric_count |-> 0,
   categorical_count |-> 0, numeric_ratio |-> 0, categorical_ratio |-> 0,
   completeness |-> NaN]
NoResult ==
  [kind |-> "none", error |-> "", file |-> "", summary |-> NoSummary,
   graphs |-> <<>>, warnings |-> <<>>, zip_file |-> ""]
ErrorResult(msg) == [NoResult EXCEPT !.kind = "error", !.error = msg]

\* An invocation analyze_file(file_path, file_name): its locals and the
\* place it has reached.
NewCall(name, ext) ==
  [pc |-> "read", file_path |-> name, file_name |-> name, ext |-> ext,
   df |-> EmptyDf, summary |-> NoSummary, warnings |-> <<>>,
   graph_paths |-> <<>>, col |-> 0, pdf |-> <<>>, result |-> NoResult]

Return(c, res) == [c EXCEPT !.pc = "done", !.result = res]

UniqueThreshold == 50

\* round(((total_cells - total_missing) / total_cells) * 100, 2): the
\* numerator is a numpy integer, so 0/0 is nan and raises nothing.
Completeness(df) ==
  NpPct(df.nrows * NCols(df) - TotalMissing(df), df.nrows * NCols(df))

\* The warnings list (lines 62-70).  isna().mean() of a column without rows
\* is nan, and nan > 0.5 is False.
Warnings(df) ==
  LET high == SelectSeq(df.names, LAMBDA n : \E i \in 1..NCols(df) :
                 /\ df.names[i] = n
                 /\ df.nrows > 0
                 /\ 2 * MissingIn(df, i) > df.nrows)
      many == SelectSeq(df.names, LAMBDA n : \E i \in 1..NCols(df) :
                 df.names[i] = n /\ NUnique(df, i) > UniqueThreshold)
      w1 == IF high # <<>> THEN <<<<"High missing data in columns", high>>>> ELSE <<>>
      w2 == IF many # <<>> THEN <<<<"Columns with >50 unique values", many>>>> ELSE <<>>
  IN IF w1 \o w2 = <<>> THEN <<<<"No major warnings detected.", <<>>>>>> ELSE w1 \o w2

\* Lines 37-70: the column types, the summary and the warnings.  The two
\* ratios divide Python integers: without columns that is ZeroDivisionError.
Summarize(c) ==
  LET df == c.df
      nc == NCols(df)
      numeric_count == Cardinality(numeric_cols(df))
      categorical_count == Cardinality(categorical_cols(df))
  IN IF nc = 0 THEN Return(c, ErrorResult("division by zero"))
     ELSE [c EXCEPT
             !.pc = "readme_init",
             !.summary =
               [rows |-> df.nrows, columns |-> nc, column_names |-> df.names,
                numeric_count |-> numeric_count,
                categorical_count |-> categorical_count,
                numeric_ratio |-> RoundHE(numeric_count * 10000, nc),
                categorical_ratio |-> RoundHE(categorical_count * 10000, nc),
                completeness |-> Completeness(df)],
             !.warnings = Warnings(df)]

\* Lines 15-35: the file is read by its extension, from where it was saved.
ReadFile(c, fs) ==
  LET saved == fs.uploads[c.file_path]
      f == saved[1]
      got == IF c.ext = ".csv" THEN read_csv(f)
             ELSE IF c.ext = ".xlsx" THEN read_excel(f)
             ELSE json_normalize(f)
  IN IF c.ext \in TabularExts
     THEN IF saved = <<>>
          THEN [call |-> Return(c, ErrorResult("No columns to parse from file")),
                fs |-> fs]
          ELSE IF got.ok
               THEN [call |-> [c EXCEPT !.pc = "types", !.df = got.df], fs |-> fs]
               ELSE [call |-> Return(c, ErrorResult(got.err)), fs |-> fs]
     ELSE IF c.ext = ".py"
     THEN [call |-> Return(c, [NoResult EXCEPT !.kind = "python",
                                               !.file = c.file_name]),
           fs |-> [fs EXCEPT !.readme =
                     <<<<"AUTO GENERATED DOCUMENTATION", "">>,
                       <<"PYTHON FILE", "">>,
                       <<"code", IF saved = <<>> THEN "" ELSE f.text>>>>]]
     ELSE [call |-> Return(c, ErrorResult("Unsupported file type")), fs |-> fs]

\* Lines 72-79: open(readme_path, "w") truncates the README.
ReadmeHeader(c) ==
  <<<<"AUTO GENERATED DOCUMENTATION", "">>, <<"File Name", c.file_name>>,
    <<"Total Rows", c.summary.rows>>, <<"Total Columns", c.summary.columns>>,
    <<"COLUMN INSIGHTS", "">>>>
InitReadmeAppending(c, fs) == [fs EXCEPT !.readme = @ \o ReadmeHeader(c)]

InitReadme(c, fs) == [fs EXCEPT !.readme = ReadmeHeader(c)]

\* df[col].dropna().unique()[:5]
RECURSIVE Uniques(_, _)
Uniques(cells, seen) ==
  IF cells = <<>> THEN <<>>
  ELSE IF Head(cells) = Missing \/ Head(cells) \in seen
       THEN Uniques(Tail(cells), seen)
       ELSE <<Head(cells)>> \o Uniques(Tail(cells), seen \cup {Head(cells)})
Samples(df, i) ==
  LET u == Uniques(df.cols[i], {}) IN SubSeq(u, 1, IF Len(u) < 5 THEN Len(u) ELSE 5)

\* Lines 103-117: the column's lines of the README and of the PDF.
ColumnInsight(df, i) ==
  <<<<"Column Name", df.names[i]>>, <<"Data Type", df.dtypes[i]>>,
    <<"Total Values", df.nrows>>, <<"Missing Values", MissingIn(df, i)>>,
    <<"Missing Percentage", NpPct(MissingIn(df, i), df.nrows)>>,
    <<"Unique Values", NUnique(df, i)>>, <<"Sample Values", Samples(df, i)>>>>

\* series.min() / series.max(): nan for a column without a value.
Present(df, i) == {NumVal(df.cols[i][r]) : r \in {q \in 1..df.nrows : df.cols[i][q] # Missing}}
SeriesMin(df, i) ==
  IF Present(df, i) = {} THEN NaN
  ELSE Num(CHOOSE x \in Present(df, i) : \A y \in Present(df, i) : x <= y)
SeriesMax(df, i) ==
  IF Present(df, i) = {} THEN NaN
  ELSE Num(CHOOSE x \in Present(df, i) : \A y \in Present(df, i) : x >= y)

\* Lines 139-153: the chart saved as output/numeric_charts/<col>.png.
Chart(df, i) ==
  <<<<"plot", df.cols[i]>>, <<"min", SeriesMin(df, i)>>, <<"max", SeriesMax(df, i)>>>>

MinMax(df, i) ==
  <<<<"Minimum Value", SeriesMin(df, i)>>, <<"Maximum Value", SeriesMax(df, i)>>>>

\* Lines 171-179 and 181-193: the health score section.
HealthScore(c) ==
  <<<<"DATASET HEALTH SCORE", "">>,
    <<"Completeness Score", c.summary.completeness>>,
    <<"Numeric Columns", <<c.summary.numeric_count, c.summary.numeric_ratio>>>>,
    <<"Categorical Columns", <<c.summary.categorical_count, c.summary.categorical_ratio>>>>,
    <<"Warnings", c.warnings>>>>

PdfHeader(c) ==
  <<<<"AUTO GENERATED DOCUMENTATION", "">>, <<"File Name", c.file_name>>,
    <<"Total Rows", c.summary.rows>>, <<"Total Columns", c.summary.columns>>,
    <<"COLUMN INSIGHTS", "">>>>

NextColumn(c) ==
  IF c.col < NCols(c.df) THEN [c EXCEPT !.pc = "col_readme", !.col = c.col + 1]
  ELSE [c EXCEPT !.pc = "health"]

\* One step of analyze_file: the code between two accesses to the files it
\* shares with every other invocation.
Step(c, fs) ==
  LET df == c.df
      i == c.col
      name == df.names[i]
  IN CASE c.pc = "read" -> ReadFile(c, fs)
       [] c.pc = "types" -> [call |-> Summarize(c), fs |-> fs]
       [] c.pc = "readme_init" ->
            [call |-> NextColumn([c EXCEPT !.pdf = PdfHeader(c)]),
             fs |-> InitReadme(c, fs)]
       [] c.pc = "col_readme" ->
            [call |-> IF i \in numeric_cols(df)
                      THEN [c EXCEPT !.pc = "col_chart",
                                     !.pdf = @ \o ColumnInsight(df, i)]
                      ELSE NextColumn([c EXCEPT !.pdf = @ \o ColumnInsight(df, i)]),
             fs |-> [fs EXCEPT !.readme = @ \o ColumnInsight(df, i)]]
       [] c.pc = "col_chart" ->
            [call |-> [c EXCEPT !.pc = "col_minmax",
                                !.graph_paths = Append(@, name)],
             fs |-> [fs EXCEPT !.charts[name] = Chart(df, i)]]
       [] c.pc = "col_minmax" ->
            [call |-> [c EXCEPT !.pc = "col_image"],
             fs |-> [fs EXCEPT !.readme = @ \o MinMax(df, i) \o <<<<"chart", name>>>>]]
       [] c.pc = "col_image" ->
            [call |-> NextColumn([c EXCEPT !.pdf =
                        @ \o MinMax(df, i) \o <<<<"image", fs.charts[name]>>>>]),
             fs |-> fs]
       [] c.pc = "health" ->
            [call |-> [c EXCEPT !.pc = "save_pdf", !.pdf = @ \o HealthScore(c)],
             fs |-> [fs EXCEPT !.readme = @ \o HealthScore(c)]]
       [] c.pc = "save_pdf" ->
            [call |-> [c EXCEPT !.pc = "zip"], fs |-> [fs EXCEPT !.pdf = c.pdf]]
       [] c.pc = "zip" ->
            [call |-> Return(c, [NoResult EXCEPT
                        !.kind = "summary", !.summary = c.summary,
                        !.graphs = c.graph_paths, !.warnings = c.warnings,
                        !.zip_file = "output/Auto_Documenter_Output.zip"]),
             fs |-> [fs EXCEPT !.zip =
                       [readme |-> fs.readme, pdf |-> fs.pdf,
                        charts |-> [k \in 1..Len(c.graph_paths) |->
                                      fs.charts[c.graph_paths[k]]]]]]
       [] OTHER -> [call |-> c, fs |-> fs]

\* analyze_file run from its current place to its return, alone.
RECURSIVE RunAll(_)
RunAll(st) == IF st.call.pc = "done" THEN st ELSE RunAll(Step(st.call, st.fs))

\* The upload saved under its name (parser.py 228-231, main.py 26-30).
SaveUpload(fs, f) == [fs EXCEPT !.uploads[f.name] = <<f>>]

\* analyze_file(file_path, file_name) on a saved upload.
analyze_file(f, fs) == RunAll([call |-> NewCall(f.name, f.ext), fs |-> fs])

\* ------------------------------------------------ the dashboard (app.py)
\* Lines 106-107: a column named Value is forced to numbers; a cell that is
\* no number becomes NaN (errors='coerce').
CleanValue(df) ==
  [df EXCEPT
     !.dtypes = [i \in 1..NCols(df) |->
                   IF df.names[i] = "Value" THEN "number" ELSE df.dtypes[i]],
     !.cols = [i \in 1..NCols(df) |->
                 IF df.names[i] = "Value"
                 THEN [r \in 1..df.nrows |->
                         IF df.cols[i][r] \in NumberCells THEN df.cols[i][r]
                         ELSE IF df.cols[i][r] = "s1" THEN "n1" ELSE Missing]
                 ELSE df.cols[i]]]

\* Lines 93-107: the dashboard reads the upload itself.
LoadDashboard(f) ==
  LET got == IF f.ext = ".csv" THEN read_csv(f) ELSE read_excel(f)
  IN [got EXCEPT !.df = CleanValue(got.df)]

\* Line 191: (df.isna().sum() / len(df) * 100).round(2), per column
missing_pct(df) == [i \in 1..NCols(df) |-> NpPct(MissingIn(df, i), df.nrows)]

\* Line 195: round(100 - missing_pct.mean(), 2).  mean() skips NaN and is NaN
\* when nothing is left (no columns, or no rows).
completeness(df) ==
  LET mp == missing_pct(df)
      ok == SelectSeq(mp, LAMBDA x : ~x.nan)
  IN IF ok = <<>> THEN NaN
     ELSE Num(RoundHE(10000 * Len(ok) - SumSeq([k \in 1..Len(ok) |-> ok[k].v]),
                      Len(ok)))

\* Line 196: round(df.duplicated().mean() * 100, 2); the mean of no rows is NaN
duplicate_pct(df) == NpPct(Duplicated(df), df.nrows)

Min(a, b) == IF a < b THEN a ELSE b

\* Lines 197-203, in hundredths: the four terms over the denominator
\* 10 * columns, rounded to 2 decimals.
ml_ready_score(df, up) ==
  LET c == completeness(df)
      d == duplicate_pct(df)
      nc == NCols(df)
      nn == Cardinality(numeric_cols(df))
      ncat == Cardinality(categorical_cols(df))
  IN IF c.nan \/ d.nan THEN NaN
     ELSE IF nc > 0
          THEN Num(RoundSum((4 * c.v + 3 * (10000 - d.v)) * nc
                              + 15000 * Min(nn, nc) + 15000 * Min(ncat, nc),
                            10 * nc, up))
          ELSE Num(RoundSum(4 * c.v + 3 * (10000 - d.v), 10, up))

LowBelow == 4000
HighFrom == 7000

SuggestedNaNAsZero(score) ==
  IF score.v < LowBelow THEN "Low ML Readiness"
  ELSE IF score.v < HighFrom THEN "Moderate ML Readiness"
       ELSE "High ML Readiness"

\* Lines 216-221: a comparison with NaN is False, so NaN takes the else branch.
Suggested(score) ==
  IF ~score.nan /\ score.v < LowBelow THEN "Low ML Readiness"
  ELSE IF ~score.nan /\ LowBelow <= score.v /\ score.v < HighFrom
       THEN "Moderate ML Readiness"
       ELSE "High ML Readiness"

\* Pearson's r of columns a and b over the rows where both have a value
\* (DataFrame.corr drops NaN pairwise), rounded to 2 decimals, in hundredths;
\* NaN when either column has no variance there.  With A the covariance and
\* Vx, Vy the variances (each times n * n), r = A / sqrt(Vx * Vy), and
\* round(100 * |r|) counts the j with j - 1/2 <= 100 * |r| (a tie to even).
PearsonRound(A, Vx, Vy) ==
  LET k == Cardinality({j \in 1..100 :
             \/ (2 * j - 1) * (2 * j - 1) * Vx * Vy < 40000 * A * A
             \/ /\ (2 * j - 1) * (2 * j - 1) * Vx * Vy = 40000 * A * A
                /\ j % 2 = 0})
  IN IF Vx = 0 \/ Vy = 0 THEN NaN ELSE Num(IF A < 0 THEN -k ELSE k)

Pearson(df, a, b) ==
  LET both(r) == df.cols[a][r] # Missing /\ df.cols[b][r] # Missing
      x(r) == NumVal(df.cols[a][r])
      y(r) == NumVal(df.cols[b][r])
      S(f(_)) == SumSeq([r \in 1..df.nrows |-> IF both(r) THEN f(r) ELSE 0])
      one(r) == 1
      xy(r) == x(r) * y(r)
      xx(r) == x(r) * x(r)
      yy(r) == y(r) * y(r)
      n == S(one)
  IN PearsonRound(n * S(xy) - S(x) * S(y),
                  n * S(xx) - S(x) * S(x),
                  n * S(yy) - S(y) * S(y))

\* Lines 169-177: df[numeric_cols].corr().round(2) when the view is selected
\* and there is more than one numeric column.
CorrShown(df, corr_option) ==
  corr_option = "View Heatmap & Table" /\ Cardinality(numeric_cols(df)) > 1

CorrelationDroppingConstants(df, corr_option) ==
  LET N == IF CorrShown(df, corr_option)
           THEN {i \in numeric_cols(df) : ~Pearson(df, i, i).nan} ELSE {}
  IN [p \in N \X N |-> Pearson(df, p[1], p[2])]

Correlation(df, corr_option) ==
  LET N == IF CorrShown(df, corr_option) THEN numeric_cols(df) ELSE {}
  IN [p \in N \X N |-> Pearson(df, p[1], p[2])]

CorrOptions == {"None", "View Heatmap & Table"}

NoView ==
  [rendered |-> FALSE, numeric_cols |-> {}, categorical_cols |-> {},
   missing_pct |-> <<>>, completeness |-> NaN, duplicate_pct |-> NaN,
   ml_ready_score |-> NaN, suggestions |-> {}, corr_shown |-> FALSE,
   corr |-> [p \in {} \X {} |-> NaN]]

\* Lines 140-221: what the dashboard computes from df and displays.
Render(df, corr_option, up) ==
  [rendered |-> TRUE,
   numeric_cols |-> numeric_cols(df),
   categorical_cols |-> categorical_cols(df),
   missing_pct |-> missing_pct(df),
   completeness |-> completeness(df),
   duplicate_pct |-> duplicate_pct(df),
   ml_ready_score |-> ml_ready_score(df, up),
   suggestions |-> {Suggested(ml_ready_score(df, up))},
   corr_shown |-> CorrShown(df, corr_option),
   corr |-> Correlation(df, corr_option)]

\* --------------------------------------------- the upload endpoint (main.py)
NoReport ==
  [done |-> FALSE, total_items |-> 0, columns_detected |-> 0,
   missing_values |-> 0, duplicate_products |-> 0]

\* Lines 33-46: the analytics of an uploaded CSV.
upload_file(f) ==
  LET df == read_csv(f).df
  IN [done |-> TRUE, total_items |-> df.nrows, columns_detected |-> NCols(df),
      missing_values |-> TotalMissing(df), duplicate_products |-> Duplicated(df)]

\* ------------------------------------ the dashboard's session (app.py)
\* parser.py 10: the parameters of analyze_file; neither has a default.
Parameters == <<"file_path", "file_name">>

\* app.py 120: the arguments of the dashboard's call, analyze_file(temp_path).
DashboardArgs(f) == <<[dir |-> "temp_upload", name |-> f.name]>>

\* The keys of the dictionary analyze_file returns: parser.py 35 (a Python
\* file), 36 and 210 (an error), 207 (a dataset).
ResultKeys(result) ==
  CASE result.kind = "error" -> {"error"}
    [] result.kind = "python" -> {"file", "type"}
    [] result.kind = "summary" -> {"summary", "graphs", "warnings", "zip_file"}
    [] OTHER -> {}

\* parser.py 50-59: the keys of the summary.
SummaryKeys == DOMAIN NoSummary

\* app.py 135-138: the subscripts the metrics read from the result, in order.
MetricReads ==
  <<<<"summary", "rows">>, <<"summary", "columns">>,
    <<"numeric_count">>, <<"categorical_count">>>>

\* result[k1] or result[k1][k2] finds its keys.
Readable(result, path) ==
  /\ path[1] \in ResultKeys(result)
  /\ Len(path) = 2 => (path[1] = "summary" /\ path[2] \in SummaryKeys)

\* A browser session of the dashboard: st.session_state (<<>> while it has
\* no 'analysis_result'), the files under temp_upload/, the file in the
\* uploader (0: none), the interaction that started the last script run, and
\* what that run left on the page: how it ended, the exception it died of,
\* the result displayed and the PDF of the download button.
NoSession ==
  [session_state |-> <<>>, temp_upload |-> {}, uploaded_file |-> 0,
   event |-> "open", outcome |-> "waiting", exception |-> "",
   shown |-> <<>>, pdf_offered |-> <<>>]

\* app.py 124-236: the result kept in the session is displayed: its error
\* (and st.stop), or its metrics, the statistics of df and, when
\* output/report.pdf exists, the download button.
Display(d, df, fs, corr_option, up) ==
  IF d.session_state = <<>>
  THEN [dash |-> [d EXCEPT !.outcome = "preview"], view |-> NoView]
  ELSE LET result == d.session_state[1]
       IN IF "error" \in ResultKeys(result)
          THEN [dash |-> [d EXCEPT !.outcome = "error", !.shown = <<result>>],
                view |-> NoView]
          ELSE IF \E k \in 1..Len(MetricReads) : ~Readable(result, MetricReads[k])
               THEN [dash |-> [d EXCEPT !.outcome = "unhandled",
                                        !.exception = "KeyError",
                                        !.shown = <<result>>],
                     view |-> NoView]
               ELSE [dash |-> [d EXCEPT !.outcome = "metrics",
                                        !.shown = <<result>>,
                                        !.pdf_offered = fs.pdf],
                     view |-> Render(df, corr_option, up)]

\* app.py 113-122: the button's branch: the upload is written to
\* temp_upload/, analyze_file is called with DashboardArgs, its result is
\* put in the session state and st.rerun() restarts the script. A call that
\* does not supply every parameter raises TypeError before the function runs.
Generate(d, f, fs) ==
  LET saved == [d EXCEPT !.temp_upload = @ \cup {f}]
  IN IF Len(DashboardArgs(f)) # Len(Parameters)
     THEN [dash |-> [saved EXCEPT !.outcome = "unhandled",
                                  !.exception = "TypeError"],
           fs |-> fs, rerun |-> FALSE]
     ELSE LET done == analyze_file(f, SaveUpload(fs, f))
          IN [dash |-> [saved EXCEPT !.session_state = <<done.call.result>>],
              fs |-> [done.fs EXCEPT !.uploads = fs.uploads], rerun |-> TRUE]

\* app.py 91-236: one run of the script with f in the uploader, started by
\* a click on the button (clicked) or by another interaction.
ScriptRun(d, f, clicked, fs, corr_option, up) ==
  LET got == LoadDashboard(f)
      start == [d EXCEPT !.outcome = "waiting", !.exception = "",
                         !.shown = <<>>, !.pdf_offered = <<>>]
      g == Generate(start, f, fs)
      shown == IF clicked THEN Display(g.dash, got.df, g.fs, corr_option, up)
               ELSE Display(start, got.df, fs, corr_option, up)
  IN IF ~got.ok
     THEN [dash |-> [start EXCEPT !.outcome = "unhandled",
                                  !.exception = "EmptyDataError"],
           fs |-> fs, df |-> <<>>, view |-> NoView]
     ELSE IF clicked /\ ~g.rerun
     THEN [dash |-> g.dash, fs |-> g.fs, df |-> <<got.df>>, view |-> NoView]
     ELSE [dash |-> shown.dash, fs |-> IF clicked THEN g.fs ELSE fs,
           df |-> <<got.df>>, view |-> shown.view]

\* app.py 91, 93: a run with no file in the uploader shows nothing below it.
EmptyRun(d) ==
  [d EXCEPT !.outcome = "waiting", !.exception = "", !.shown = <<>>,
            !.pdf_offered = <<>>]

\* ------------------------------------------------------------- the state
VARIABLES
  mode,      \* which program is run: "seq", "score", "conc" or "dash"
  uploaded,  \* the file each session uploads ("dash": the user's two files)
  fs,        \* the working directory
  calls,     \* each session's invocation of analyze_file
  hist,      \* the result and the README of each completed run, in order
  df,        \* the dashboard's DataFrame, <<>> before it is loaded
  view,      \* what the dashboard computed and displayed
  report,    \* the upload endpoint's answer
  dash       \* the dashboard's browser session

vars == <<mode, uploaded, fs, calls, hist, df, view, report, dash>>

Sessions == {1, 2}

\* The files two concurrent sessions upload: small CSV tables with a row,
\* saved under different names.
ConcFiles ==
  UNION {{TabularFile(".csv", sh, FALSE, t) : t \in Tables(sh, ScoreCells)} :
           sh \in (1..MaxConcRows) \X (1..MaxConcCols)}
ConcName(s) == IF s = 1 THEN "data.csv" ELSE "more.csv"

InitCommon ==
  /\ calls = [s \in Sessions |-> NewCall(uploaded[s].name, uploaded[s].ext)]
  /\ hist = <<>>
  /\ df = <<>>
  /\ view = NoView
  /\ report = NoReport
  /\ dash = NoSession

\* Any supported table, a Python source or a file of an unsupported type.
Init ==
  /\ mode = "seq"
  /\ \/ \E ext \in TabularExts : \E sh \in Shapes(ext, MaxRows, MaxCols, MaxCells) :
          \E vc \in ValueCols(sh) : \E t \in Tables(sh, CellsOf(ext)) :
             uploaded = [s \in Sessions |-> TabularFile(ext, sh, vc, t)]
     \/ \E ext \in {".py", ".txt"} : uploaded = [s \in Sessions |-> OtherFile(ext)]
  /\ fs \in {EmptyFs, StaleFs}
  /\ InitCommon

\* CSV tables of up to MaxScoreRows x MaxScoreCols cells over ScoreCells.
InitScore ==
  /\ mode = "score"
  /\ \E sh \in Shapes(".csv", MaxScoreRows, MaxScoreCols, MaxScoreRows * MaxScoreCols) :
       \E t \in Tables(sh, ScoreCells) :
          uploaded = [s \in Sessions |-> TabularFile(".csv", sh, FALSE, t)]
  /\ fs = EmptyFs
  /\ InitCommon

InitConc ==
  /\ mode = "conc"
  /\ \E fl \in [Sessions -> ConcFiles] :
       uploaded = [s \in Sessions |-> [fl[s] EXCEPT !.name = ConcName(s)]]
  /\ fs = EmptyFs
  /\ calls = [s \in Sessions |->
                [NewCall(uploaded[s].name, uploaded[s].ext) EXCEPT !.pc = "save"]]
  /\ hist = <<>>
  /\ df = <<>>
  /\ view = NoView
  /\ report = NoReport
  /\ dash = NoSession

RunLimit == IF mode = "score" THEN 1 ELSE MaxRuns

\* parser.py 224-234: the upload is saved and analysed, start to end.
ProcessUpload ==
  /\ mode \in {"seq", "score"}
  /\ Len(hist) < RunLimit
  /\ mode = "score" => df = <<>>
  /\ \E done \in {analyze_file(uploaded[1], SaveUpload(fs, uploaded[1]))} :
        /\ fs' = done.fs
        /\ calls' = [calls EXCEPT ![1] = done.call]
        /\ hist' = Append(hist, [result |-> done.call.result, readme |-> done.fs.readme])
  /\ UNCHANGED <<mode, uploaded, df, view, report, dash>>

\* app.py 91-107: the dashboard loads the uploaded CSV or Excel file.
DashLoad ==
  /\ mode \in {"seq", "score"}
  /\ df = <<>>
  /\ uploaded[1].ext \in {".csv", ".xlsx"}
  /\ LoadDashboard(uploaded[1]).ok
  /\ df' = <<LoadDashboard(uploaded[1]).df>>
  /\ UNCHANGED <<mode, uploaded, fs, calls, hist, view, report, dash>>

\* app.py 140-221: the statistics, the score and the suggestion of df, as
\* the display block computes them from the DataFrame it is given.
DashRender ==
  /\ mode \in {"seq", "score"}
  /\ df # <<>>
  /\ ~view.rendered
  /\ \E corr_option \in CorrOptions : \E up \in BOOLEAN :
       view' = Render(df[1], corr_option, up)
  /\ UNCHANGED <<mode, uploaded, fs, calls, hist, df, report, dash>>

\* main.py 24-46: POST /upload of a CSV file.
UploadEndpoint ==
  /\ mode = "seq"
  /\ ~report.done
  /\ uploaded[1].ext = ".csv"
  /\ read_csv(uploaded[1]).ok
  /\ report' = upload_file(uploaded[1])
  /\ UNCHANGED <<mode, uploaded, fs, calls, hist, df, view, dash>>

\* parser.py 228-231 in one session: the upload is saved.
ConcSave(s) ==
  /\ mode = "conc"
  /\ calls[s].pc = "save"
  /\ fs' = SaveUpload(fs, uploaded[s])
  /\ calls' = [calls EXCEPT ![s].pc = "read"]
  /\ UNCHANGED <<mode, uploaded, hist, df, view, report, dash>>

\* One step of one session's analyze_file, interleaved with the other's.
ConcStep(s) ==
  /\ mode = "conc"
  /\ calls[s].pc \notin {"save", "done"}
  /\ \E n \in {Step(calls[s], fs)} :
        /\ fs' = n.fs
        /\ calls' = [calls EXCEPT ![s] = n.call]
  /\ UNCHANGED <<mode, uploaded, hist, df, view, report, dash>>

\* The files a user of the dashboard has at hand: a CSV or Excel table named
\* data.*, and a CSV table named more.csv.
DashFiles ==
  UNION {UNION {{TabularFile(ext, sh, FALSE, t) : t \in Tables(sh, CellsOf(ext))} :
                  sh \in Shapes(ext, MaxDashRows, MaxDashCols,
                                MaxDashRows * MaxDashCols)} :
           ext \in {".csv", ".xlsx"}}

\* The dashboard is opened in a working directory that is empty or holds the
\* outputs of an earlier run of parser.py's page on more.csv.
InitDash ==
  /\ mode = "dash"
  /\ \E f \in DashFiles : \E g \in ConcFiles :
       uploaded = [s \in Sessions |->
                     IF s = 1 THEN f ELSE [g EXCEPT !.name = ConcName(s)]]
  /\ fs \in {EmptyFs, analyze_file(uploaded[2], SaveUpload(EmptyFs, uploaded[2])).fs}
  /\ InitCommon

\* app.py 91: the user puts file i in the uploader; the script runs.
DashUpload(i) ==
  /\ mode = "dash"
  /\ dash.uploaded_file # i
  /\ \E corr_option \in CorrOptions : \E up \in BOOLEAN :
       \E run \in {ScriptRun([dash EXCEPT !.uploaded_file = i, !.event = "upload"],
                             uploaded[i], FALSE, fs, corr_option, up)} :
          /\ dash' = run.dash
          /\ fs' = run.fs
          /\ df' = run.df
          /\ view' = run.view
  /\ UNCHANGED <<mode, uploaded, calls, hist, report>>

\* The user removes the file from the uploader; the script runs.
DashRemove ==
  /\ mode = "dash"
  /\ dash.uploaded_file # 0
  /\ dash' = EmptyRun([dash EXCEPT !.uploaded_file = 0, !.event = "remove"])
  /\ df' = <<>>
  /\ view' = NoView
  /\ UNCHANGED <<mode, uploaded, fs, calls, hist, report>>

\* app.py 113: the user clicks "Generate Documentation", which the last run
\* drew (it loaded the file); the script runs with the button set.
DashClick ==
  /\ mode = "dash"
  /\ dash.uploaded_file # 0
  /\ df # <<>>
  /\ \E corr_option \in CorrOptions : \E up \in BOOLEAN :
       \E run \in {ScriptRun([dash EXCEPT !.event = "click"],
                             uploaded[dash.uploaded_file], TRUE, fs,
                             corr_option, up)} :
          /\ dash' = run.dash
          /\ fs' = run.fs
          /\ df' = run.df
          /\ view' = run.view
  /\ UNCHANGED <<mode, uploaded, calls, hist, report>>

\* Any other interaction (the slider of line 88, a selectbox) reruns the
\* script on the same file.
DashRerun ==
  /\ mode = "dash"
  /\ dash.uploaded_file # 0
  /\ \E corr_option \in CorrOptions : \E up \in BOOLEAN :
       \E run \in {ScriptRun([dash EXCEPT !.event = "rerun"],
                             uploaded[dash.uploaded_file], FALSE, fs,
                             corr_option, up)} :
          /\ dash' = run.dash
          /\ fs' = run.fs
          /\ df' = run.df
          /\ view' = run.view
  /\ UNCHANGED <<mode, uploaded, calls, hist, report>>

Next == ProcessUpload \/ DashLoad \/ DashRender \/ UploadEndpoint

NextScore == ProcessUpload \/ DashLoad \/ DashRender

NextConc == \E s \in Sessions : ConcSave(s) \/ ConcStep(s)

Spec == Init /\ [][Next]_vars

SpecScore == InitScore /\ [][NextScore]_vars

SpecConc == InitConc /\ [][NextConc]_vars

NextDash ==
  \/ \E i \in Sessions : DashUpload(i)
  \/ DashRemove
  \/ DashClick
  \/ DashRerun

SpecDash == InitDash /\ [][NextDash]_vars

\* ------------------------------------------------------------ the claims
InPercentRange(x) == ~x.nan /\ 0 <= x.v /\ x.v <= 10000

Shown == df[1]

\* C1: for every valid dataset (any number of rows and columns) the ML
\* readiness score the dashboard computes is a defined number in [0,100],
\* never NaN.
C1_ScoreInRange == view.rendered => InPercentRange(view.ml_ready_score)

\* The readiness score as C2 states it, in hundredths: the completeness over
\* the cells, rounded to 2 decimals, and the duplicate ratio
\* 100 * duplicated rows / rows, unrounded.
ClaimedScore(d) ==
  LET n == d.nrows
      nc == NCols(d)
      c == RoundHE((n * nc - TotalMissing(d)) * 10000, n * nc)
      nn == Cardinality(numeric_cols(d))
      ncat == Cardinality(categorical_cols(d))
  IN Num(RoundHE(4 * c * n * nc + 30000 * n * nc - 30000 * Duplicated(d) * nc
                   + 15000 * (Min(nn, nc) + Min(ncat, nc)) * n,
                 10 * n * nc))

\* C2: for every dataset with a row and a column the readiness score equals
\* the stated formula, and the completeness the dashboard feeds into it equals
\* the cell-based completeness analyze_file computed for the same upload.
C2_ScoreFormula ==
  (/\ view.rendered
   /\ Shown.nrows >= 1 /\ NCols(Shown) >= 1
   /\ hist # <<>> /\ hist[1].result.kind = "summary")
  => /\ view.completeness = hist[1].result.summary.completeness
     /\ view.ml_ready_score = ClaimedScore(Shown)

\* C3: the completeness produced by profiling a dataset is in [0,100] and is
\* 100 when the dataset has no cells; no division by zero, no undefined value.
C3_CompletenessDefined ==
  /\ \A k \in 1..Len(hist) :
       /\ hist[k].result.error # "division by zero"
       /\ hist[k].result.kind = "summary" =>
            /\ InPercentRange(hist[k].result.summary.completeness)
            /\ hist[k].result.summary.rows * hist[k].result.summary.columns = 0
                 => hist[k].result.summary.completeness = Num(10000)
  /\ view.rendered =>
       /\ InPercentRange(view.completeness)
       /\ Shown.nrows * NCols(Shown) = 0 => view.completeness = Num(10000)

\* C4: the duplicate ratio is in [0,100] and is 0 for a dataset without rows.
C4_DuplicateRatio ==
  view.rendered =>
    /\ InPercentRange(view.duplicate_pct)
    /\ Shown.nrows = 0 => view.duplicate_pct = Num(0)

\* What session s's invocation produces when it runs alone.
Alone(s) == analyze_file(uploaded[s], SaveUpload(EmptyFs, uploaded[s]))

\* C5: two invocations on different datasets do not interfere: under every
\* interleaving, when an invocation returns, its result and the artefacts it
\* packed (README, PDF, charts, in the ZIP) and its saved upload are those it
\* produces when run alone.
C5_NoInterference ==
  [][\A s \in Sessions :
       (calls[s].pc # "done" /\ calls'[s].pc = "done") =>
         /\ calls'[s].result = Alone(s).call.result
         /\ fs'.zip = Alone(s).fs.zip
         /\ fs'.uploads[uploaded[s].name] = <<uploaded[s]>>]_vars

\* The upload was parsed into a dataset: a supported tabular type, and not a
\* CSV file without columns (which read_csv refuses).
ParsedSuccessfully(f) ==
  f.ext \in TabularExts /\ (f.ext = ".csv" => Len(f.cols) > 0)

\* C6: profiling is total over the valid dataset shapes: every successfully
\* parsed dataset, without rows or without columns too, gets a profile
\* result; an error result is returned only for a source that cannot be
\* parsed or has an unsupported type.
C6_ProfilingTotal ==
  \A k \in 1..Len(hist) :
    hist[k].result.kind = (IF ParsedSuccessfully(uploaded[1]) THEN "summary"
                           ELSE IF uploaded[1].ext = ".py" THEN "python"
                           ELSE "error")

\* The flags C7 prescribes for a column composition.
ClaimedFlags(nn, ncat) ==
  {fl \in {"regression-family", "classification-family", "clustering-family"} :
     \/ fl = "regression-family" /\ nn >= 2
     \/ fl = "classification-family" /\ ncat >= 1
     \/ fl = "clustering-family" /\ nn >= 2 /\ ncat = 0}

AllParse(f) ==
  {i \in 1..Len(f.cols) :
     \A r \in 1..f.nrows : f.cols[i][r] = Missing \/ ParsesAsNumber(f.cols[i][r])}

\* The columns of the upload that hold a number, and nothing but numbers and
\* empty cells.
StoredAsNumbers(f) ==
  {i \in 1..Len(f.cols) :
     /\ \A r \in 1..f.nrows : f.cols[i][r] \in {Missing, "n0", "n1"}
     /\ \E r \in 1..f.nrows : f.cols[i][r] \in {"n0", "n1"}}

\* The columns of a CSV or Excel table with a row that hold no cell at all.
EmptyParsedColumns(f) ==
  {i \in 1..Len(f.cols) :
     /\ f.ext # ".json" /\ f.nrows >= 1
     /\ \A r \in 1..f.nrows : f.cols[i][r] = Missing}

VariesWith(d, a, b) ==
  \E r, q \in 1..d.nrows :
    /\ d.cols[a][r] # Missing /\ d.cols[b][r] # Missing
    /\ d.cols[a][q] # Missing /\ d.cols[b][q] # Missing
    /\ d.cols[a][r] # d.cols[a][q]

IsConstant(d, a) ==
  /\ \E r \in 1..d.nrows : d.cols[a][r] # Missing
  /\ \A r, q \in 1..d.nrows :
       (d.cols[a][r] # Missing /\ d.cols[a][q] # Missing) => d.cols[a][r] = d.cols[a][q]

\* C9 as stated: a numeric column of zero variance never appears in the
\* correlation output; a pair with such a column is absent.
C9_ConstantAbsent ==
  view.corr_shown =>
    \A p \in DOMAIN view.corr : ~IsConstant(Shown, p[1]) /\ ~IsConstant(Shown, p[2])

\* C9 as amended: the correlation output has an entry for every ordered pair
\* of numeric columns, constant columns included; the entry is undefined
\* (NaN), not zero and not absent, exactly when one of the two columns does
\* not vary over the rows where both have a value, and otherwise a
\* coefficient in [-1,1]; the output is symmetric.
C9_ConstantIsNaN ==
  view.corr_shown =>
    /\ DOMAIN view.corr = view.numeric_cols \X view.numeric_cols
    /\ \A p \in DOMAIN view.corr :
         /\ view.corr[p].nan <=>
              ~(VariesWith(Shown, p[1], p[2]) /\ VariesWith(Shown, p[2], p[1]))
         /\ ~view.corr[p].nan => -100 <= view.corr[p].v /\ view.corr[p].v <= 100
         /\ view.corr[p] = view.corr[<<p[2], p[1]>>]

C9_Witness ==
  /\ view.corr_shown
  /\ IsConstant(Shown, 1)
  /\ ~IsConstant(Shown, 2)
  /\ view.corr[<<1, 2>>].nan
  /\ view.corr[<<2, 2>>] = Num(100)

\* C10: analyze_file run twice in sequence on the same unchanged upload
\* returns the same result both times, the result it returns in an empty
\* output directory, and leaves the same README after the second run as
\* after the first.
C10_Idempotent ==
  \A k \in 1..Len(hist) :
    /\ hist[k].result = Alone(1).call.result
    /\ \A j \in 1..k : hist[j] = hist[k]

C10_Witness ==
  /\ Len(hist) >= 2
  /\ hist[2].result.kind = "summary"
  /\ hist[2].result.graphs # <<>>
  /\ fs.readme = hist[1].readme

\* Some result is on the page: the error message or the metrics of a result
\* taken from the session state.
ResultShown == dash.shown # <<>>

\* C11: after any sequence of uploads, clicks on "Generate Documentation" and
\* reruns, the result displayed from the session state and the PDF offered
\* for download are those of analysing the file now in the uploader, never
\* those of a file uploaded before it.
C11_ShownIsCurrent ==
  dash.uploaded_file # 0 =>
    /\ ResultShown => dash.shown[1] = Alone(dash.uploaded_file).call.result
    /\ dash.pdf_offered # <<>> =>
         dash.pdf_offered = Alone(dash.uploaded_file).fs.pdf

\* What analyze_file returns for the file in the uploader.
AnalysisOfCurrent == Alone(dash.uploaded_file).call.result

\* C12: the dashboard and analyze_file agree on their interface: the call
\* supplies every parameter, every key the metrics read is present at that
\* position in every result without an error, and so a click on "Generate
\* Documentation" ends with the metrics or with the reported error, never
\* with an unhandled exception.
C12_InterfaceAgrees ==
  dash.event = "click" =>
    /\ Len(DashboardArgs(uploaded[dash.uploaded_file])) = Len(Parameters)
    /\ "error" \notin ResultKeys(AnalysisOfCurrent) =>
         \A k \in 1..Len(MetricReads) : Readable(AnalysisOfCurrent, MetricReads[k])
    /\ dash.outcome \in {"metrics", "error"}

============================================================================
